---- MODULE Spec2Model ----
(***************************************************************************)
(* A model of src/js/ai.js: the assistant panel (send / suggest fix), the  *)
(* selection chat widget, and the auto-completion provider with its cache. *)
(* Texts are sequences of one-character (or one-token) strings.            *)
(***************************************************************************)
EXTENDS Naturals, Sequences, FiniteSets, TLC

VARIABLES
    transcript,       \* children of .chat-messages, in document order
    indicatorActive,  \* .status-indicator carries the class "active"
    sendDisabled,     \* .send-button "disabled" property
    fixDisabled,      \* .suggest-fix-button "disabled" property
    exch,             \* the exchanges started so far, in start order
    netCalls,         \* number of fetch() calls issued to AI_ENDPOINT
    lastHandler,      \* the handler the last UI event was delivered to, if any
    completionCache,  \* the own properties of the completionCache object
    creq,             \* the provideCompletionItems invocations so far
    storeLog,         \* per key, the suggestion lists stored so far, in order
    rawResponse,      \* the text handed to parseCompletionResponse
    embedded,         \* the JSON array of strings rawResponse was written around
    parsed,           \* what the call of parseCompletionResponse came to
    cursorText,       \* the text before the cursor read by the provider
    context           \* the truncatedContext computed from it

vars == <<transcript, indicatorActive, sendDisabled,
          fixDisabled, exch, netCalls, lastHandler,
          completionCache, creq, storeLog,
          rawResponse, embedded, parsed, cursorText, context>>

chatVars == <<transcript, indicatorActive, sendDisabled,
              fixDisabled, exch>>

cacheVars == <<completionCache, creq, storeLog>>

parserVars == <<rawResponse, embedded, parsed>>

windowVars == <<cursorText, context>>

pureVars == <<parserVars, windowVars>>

----------------------------------------------------------------------------
(* Bounds of the model.                                                    *)

MaxExchanges == 2

MaxRequests == 2

----------------------------------------------------------------------------
(* Texts.                                                                  *)

NoText == <<>>

IsSpace(c) == c \in {" ", "\n", "\t", "\r"}

RECURSIVE TrimStart(_)
TrimStart(s) ==
    IF s = <<>> THEN <<>>
    ELSE IF IsSpace(Head(s)) THEN TrimStart(Tail(s)) ELSE s

RECURSIVE TrimEnd(_)
TrimEnd(s) ==
    IF s = <<>> THEN <<>>
    ELSE IF IsSpace(s[Len(s)]) THEN TrimEnd(SubSeq(s, 1, Len(s) - 1)) ELSE s

\* String.prototype.trim
Trim(s) == TrimEnd(TrimStart(s))

\* $input.val(): what the user can have typed into the panel's input field
PanelInputs == { <<>>, <<" ">>, <<" ", "a">> }

\* questionInput.value: what the user can have typed into the widget's textarea
WidgetInputs == { <<>>, <<" ">>, <<"c", " ">> }

\* sourceEditor.getModel().getValueInRange(sourceEditor.getSelection())
Selections == { <<>>, <<"s">> }

\* getCompilationError()
CompilationErrors == { <<>>, <<"E">> }

----------------------------------------------------------------------------
(* The remote endpoint and fetchChatCompletion.                            *)

\* what one POST to AI_ENDPOINT can come to
RemoteOutcomes ==
    { [type |-> "network", ok |-> FALSE, json |-> FALSE, content |-> <<>>],
      [type |-> "http",    ok |-> FALSE, json |-> FALSE, content |-> <<>>],
      [type |-> "http",    ok |-> TRUE,  json |-> FALSE, content |-> <<>>],
      [type |-> "http",    ok |-> TRUE,  json |-> TRUE,  content |-> <<>>],
      [type |-> "http",    ok |-> TRUE,  json |-> TRUE,  content |-> <<"A">>] }

NoResponseFromAI == <<"No response from AI.">>

\* fetchChatCompletion: [threw, text]; text is err.message when threw
fetchChatCompletion(o) ==
    IF o.type = "network"
    THEN [threw |-> TRUE, text |-> <<"Failed to fetch">>]
    ELSE IF ~o.ok
    THEN [threw |-> TRUE, text |-> <<"API Error: ", "500", " ", "Internal Server Error">>]
    ELSE IF ~o.json
    THEN [threw |-> TRUE, text |-> <<"Unexpected token">>]
    ELSE [threw |-> FALSE,
          text |-> IF o.content = <<>> THEN NoResponseFromAI ELSE o.content]

\* marked.parse: Markdown to HTML
markedParse(md) == <<"<p>">> \o md \o <<"</p>">>

\* fetchCodeAssistantResponse after the language is known
fetchCodeAssistantResponse(o) ==
    LET r == fetchChatCompletion(o)
    IN  IF r.threw THEN r ELSE [threw |-> FALSE, text |-> markedParse(r.text)]

----------------------------------------------------------------------------
(* The transcript.                                                         *)

\* the innerHTML of a .message-bubble: a template and its interpolated parts
Bubble(tpl, a, b) == [tpl |-> tpl, a |-> a, b |-> b]

ProcessingBubble == Bubble("processing", <<>>, <<>>)

AnalyzingBubble == Bubble("analyzing", <<>>, <<>>)

ErrorBubble(msg) == Bubble("error-message", msg, <<>>)

IsPlaceholder(m) == m.bubble.tpl \in {"processing", "analyzing"}

\* addChatMessage: one more .message element at the end of the container
addChatMessage(t, bubble, isUser) ==
    Append(t, [bubble |-> bubble, isUser |-> isUser, timestamp |-> ~isUser])

\* the replacement with the selector ".message:first" in place of ".message:last"
replaceFirstBubble(t, bubble) ==
    IF t = <<>> THEN t
    ELSE [t EXCEPT ![1] = [@ EXCEPT !.bubble = bubble]]

\* replaceLastBubble, and the widget's lastBubble.innerHTML = ...
replaceLastBubble(t, bubble) ==
    IF t = <<>> THEN t
    ELSE [t EXCEPT ![Len(t)] = [@ EXCEPT !.bubble = bubble]]

----------------------------------------------------------------------------
(* parseCompletionResponse.  Raw texts are sequences over Alphabet, on     *)
(* which the operators below do what String.prototype.match, JSON.parse,   *)
(* split and replace do.                                                   *)

Alphabet == { "[", "]", "\"", ",", " ", "\n", "-", "*", "a", "b", "1" }

Digits == { "0", "1", "2", "3", "4", "5", "6", "7", "8", "9" }

\* JSON whitespace
IsJsonSpace(c) == c \in {" ", "\n", "\t", "\r"}

\* the class [\s\-*>"'] of the clean-up regular expression
IsDecoration(c) == IsSpace(c) \/ c \in {"-", "*", ">", "\"", "'"}

\* the least index i >= from with s[i] = c, or 0
RECURSIVE IndexOf(_, _, _)
IndexOf(s, c, from) ==
    IF from > Len(s) THEN 0
    ELSE IF s[from] = c THEN from ELSE IndexOf(s, c, from + 1)

\* rawText.match(/\[.*?\]/s): from the first "[" that has a "]" after it (the
\* leftmost one, if any has) to the nearest "]"; <<>> stands for null
jsonMatch(rawText) ==
    LET i == IndexOf(rawText, "[", 1)
        j == IF i = 0 THEN 0 ELSE IndexOf(rawText, "]", i + 1)
    IN  IF j = 0 THEN <<>> ELSE SubSeq(rawText, i, j)

RECURSIVE SkipJsonSpace(_, _)
SkipJsonSpace(s, i) ==
    IF i <= Len(s) /\ IsJsonSpace(s[i]) THEN SkipJsonSpace(s, i + 1) ELSE i

RECURSIVE SkipDigits(_, _)
SkipDigits(s, i) ==
    IF i <= Len(s) /\ s[i] \in Digits THEN SkipDigits(s, i + 1) ELSE i

JsonFail == [ok |-> FALSE, next |-> 0, isString |-> FALSE, str |-> <<>>]

\* a JSON string starting at the quote s[i]: no raw control character inside
JsonString(s, i) ==
    LET j == IndexOf(s, "\"", i + 1)
    IN  IF j = 0 THEN JsonFail
        ELSE IF \E k \in (i + 1)..(j - 1) : s[k] \in {"\n", "\t", "\r"}
        THEN JsonFail
        ELSE [ok |-> TRUE, next |-> j + 1, isString |-> TRUE,
              str |-> SubSeq(s, i + 1, j - 1)]

\* a JSON number starting at s[i]: -? (0 | [1-9][0-9]*)
JsonNumber(s, i) ==
    LET d == IF s[i] = "-" THEN i + 1 ELSE i
        e == SkipDigits(s, d)
    IN  IF e = d THEN JsonFail
        ELSE IF s[d] = "0" /\ e > d + 1 THEN JsonFail
        ELSE [ok |-> TRUE, next |-> e, isString |-> FALSE, str |-> <<>>]

\* one JSON value starting at s[i], i <= Len(s)
JsonValue(s, i) ==
    IF s[i] = "\"" THEN JsonString(s, i)
    ELSE IF s[i] = "-" \/ s[i] \in Digits THEN JsonNumber(s, i)
    ELSE JsonFail

\* the elements of the array from s[i] on, s[Len(s)] being its "]"
RECURSIVE JsonElements(_, _, _)
JsonElements(s, i, acc) ==
    LET v == JsonValue(s, i)
        k == IF v.ok THEN SkipJsonSpace(s, v.next) ELSE 0
        more == IF v.isString THEN Append(acc, v.str) ELSE acc
    IN  IF ~v.ok THEN [ok |-> FALSE, strings |-> <<>>]
        ELSE IF k = Len(s) THEN [ok |-> TRUE, strings |-> more]
        ELSE IF s[k] = ","
        THEN JsonElements(s, SkipJsonSpace(s, k + 1), more)
        ELSE [ok |-> FALSE, strings |-> <<>>]

\* JSON.parse(m).filter(s => typeof s === "string") for a match m = "[" ... "]";
\* ok is FALSE when JSON.parse throws
JsonArrayStrings(m) ==
    LET i == SkipJsonSpace(m, 2)
    IN  IF i = Len(m) THEN [ok |-> TRUE, strings |-> <<>>]
        ELSE JsonElements(m, i, <<>>)

\* rawText.split("\n")
RECURSIVE SplitLines(_)
SplitLines(s) ==
    LET i == IndexOf(s, "\n", 1)
    IN  IF i = 0 THEN <<s>>
        ELSE <<SubSeq(s, 1, i - 1)>> \o SplitLines(SubSeq(s, i + 1, Len(s)))

RECURSIVE StripStart(_)
StripStart(s) ==
    IF s = <<>> THEN <<>>
    ELSE IF IsDecoration(Head(s)) THEN StripStart(Tail(s)) ELSE s

RECURSIVE StripEnd(_)
StripEnd(s) ==
    IF s = <<>> THEN <<>>
    ELSE IF IsDecoration(s[Len(s)]) THEN StripEnd(SubSeq(s, 1, Len(s) - 1)) ELSE s

\* line.replace(/^[\s\-*>"']+|[\s\-*>"']+$/g, "").trim()
CleanLine(line) == Trim(StripEnd(StripStart(line)))

RECURSIVE CleanLines(_)
CleanLines(ls) ==
    IF ls = <<>> THEN <<>>
    ELSE LET c == CleanLine(Head(ls))
         IN  (IF Len(c) > 0 THEN <<c>> ELSE <<>>) \o CleanLines(Tail(ls))

\* the surviving lines without .slice(0, 5)
FirstFiveNoSlice(ls) == ls

\* .slice(0, 5)
FirstFive(ls) == SubSeq(ls, 1, IF Len(ls) < 5 THEN Len(ls) ELSE 5)

\* the body of the try block alone: the SyntaxError of JSON.parse leaves
\* the function
parseCompletionResponseNoCatch(rawText) ==
    LET m == jsonMatch(rawText)
    IN  IF m # <<>>
        THEN LET array == JsonArrayStrings(m)
             IN  [threw |-> ~array.ok, value |-> array.strings]
        ELSE [threw |-> FALSE,
              value |-> FirstFive(CleanLines(SplitLines(rawText)))]

\* parseCompletionResponse: [threw, value]; the catch block returns [] for
\* whatever the try block throws
parseCompletionResponse(rawText) ==
    LET m == jsonMatch(rawText)
    IN  IF m # <<>>
        THEN LET array == JsonArrayStrings(m)
             IN  [threw |-> FALSE,
                  value |-> IF array.ok THEN array.strings ELSE <<>>]
        ELSE [threw |-> FALSE,
              value |-> FirstFive(CleanLines(SplitLines(rawText)))]

----------------------------------------------------------------------------
(* Exchanges: the async invocations of handleSend, handleSuggestFix and    *)
(* askAIButton.onclick, each suspended at an await or finished.            *)

Exchange(kind, q, sel, ph) ==
    [kind |-> kind,          \* "send", "fix" or "ask"
     stage |-> "language",   \* "language", "fetch" (the awaits), then "done"
     outcome |-> "none",     \* "success" (try completed) or "error" (catch ran)
     q |-> q,                \* userQuestion, or errorText for "fix"
     sel |-> sel,            \* selectedText of an "ask"
     ph |-> ph,              \* position of the provisional message it appended
     res |-> NoText]         \* the response or err.message it resolved with

Exchanges == 1..Len(exch)

Awaiting(e) == exch[e].stage # "done"

\* no array of strings was written into the text
NotEmbedded == [has |-> FALSE, strings |-> <<>>, bare |-> FALSE]

\* a pure function that has not been applied yet
NotCalled == [stage |-> "pending", threw |-> FALSE, value |-> <<>>]

\* the panel, the widget and the cache right after the module is loaded
Loaded ==
    /\ transcript = <<>>
    /\ indicatorActive = FALSE
    /\ sendDisabled = FALSE
    /\ fixDisabled = FALSE
    /\ exch = <<>>
    /\ netCalls = 0
    /\ lastHandler = "none"
    /\ completionCache = <<>>
    /\ creq = <<>>
    /\ storeLog = <<>>

Init ==
    /\ Loaded
    /\ rawResponse = <<>>
    /\ embedded = NotEmbedded
    /\ parsed = NotCalled
    /\ cursorText = <<>>
    /\ context = NotCalled

setLoadingState(isLoading) ==
    /\ indicatorActive' = isLoading
    /\ sendDisabled' = isLoading
    /\ fixDisabled' = isLoading

\* handleSend, up to its first suspension (await getSelectedLanguage());
\* val is $input.val(), what the user has typed by then
handleSend(val) ==
    LET userQuestion == Trim(val)
    IN  /\ IF userQuestion = <<>>
           THEN UNCHANGED <<chatVars, netCalls>>
           ELSE /\ Len(exch) < MaxExchanges
                /\ transcript' =
                     addChatMessage(
                         addChatMessage(transcript,
                             Bubble("raw", userQuestion, <<>>), TRUE),
                         ProcessingBubble, FALSE)
                /\ setLoadingState(TRUE)
                /\ exch' = Append(exch,
                       Exchange("send", userQuestion, NoText, Len(transcript) + 2))
                /\ UNCHANGED netCalls
        /\ lastHandler' = "handleSend"

\* $sendBtn.on("click", handleSend): a disabled button dispatches no click
SendClick(val) ==
    /\ ~sendDisabled
    /\ handleSend(val)
    /\ UNCHANGED <<cacheVars, pureVars>>

\* $input.on("keypress", ...): only Enter without Shift calls handleSend
KeyPress(which, shiftKey, val) ==
    /\ IF which = 13 /\ ~shiftKey
       THEN handleSend(val)
       ELSE UNCHANGED <<chatVars, netCalls, lastHandler>>
    /\ UNCHANGED <<cacheVars, pureVars>>

\* handleSuggestFix without its "if (!errorText) return"
handleSuggestFixUnguarded(errorText) ==
    /\ Len(exch) < MaxExchanges
    /\ setLoadingState(TRUE)
    /\ transcript' = addChatMessage(transcript, AnalyzingBubble, FALSE)
    /\ exch' = Append(exch,
           Exchange("fix", errorText, NoText, Len(transcript) + 1))
    /\ UNCHANGED netCalls
    /\ lastHandler' = "handleSuggestFix"

\* handleSuggestFix, up to its first suspension;
\* errorText is what getCompilationError() returns
handleSuggestFix(errorText) ==
    /\ IF errorText = <<>>
       THEN UNCHANGED <<chatVars, netCalls>>
       ELSE /\ Len(exch) < MaxExchanges
            /\ setLoadingState(TRUE)
            /\ transcript' = addChatMessage(transcript, AnalyzingBubble, FALSE)
            /\ exch' = Append(exch,
                   Exchange("fix", errorText, NoText, Len(transcript) + 1))
            /\ UNCHANGED netCalls
    /\ lastHandler' = "handleSuggestFix"

\* $fixBtn.on("click", handleSuggestFix): a disabled button dispatches no click
FixClick(errorText) ==
    /\ ~fixDisabled
    /\ handleSuggestFix(errorText)
    /\ UNCHANGED <<cacheVars, pureVars>>

\* askAIButton.onclick, up to its first suspension;
\* val is questionInput.value, what the user has typed by then
askAI(selectedText, val) ==
    LET userQuestion == Trim(val)
    IN  /\ IF selectedText = <<>> \/ userQuestion = <<>>
           THEN UNCHANGED <<chatVars, netCalls>>
           ELSE /\ Len(exch) < MaxExchanges
                /\ transcript' =
                     addChatMessage(
                         addChatMessage(transcript,
                             Bubble("question+code", userQuestion, selectedText),
                             TRUE),
                         ProcessingBubble, FALSE)
                /\ exch' = Append(exch,
                       Exchange("ask", userQuestion, selectedText,
                                Len(transcript) + 2))
                /\ UNCHANGED <<indicatorActive, sendDisabled, fixDisabled, netCalls>>
        /\ lastHandler' = "askAI"

AskClick(selectedText, val) ==
    /\ askAI(selectedText, val)
    /\ UNCHANGED <<cacheVars, pureVars>>

\* getSelectedLanguage() resolves: the prompts are built and fetch() is called
LanguageResolved(e) ==
    /\ e \in Exchanges
    /\ exch[e].stage = "language"
    /\ exch' = [exch EXCEPT ![e].stage = "fetch"]
    /\ netCalls' = netCalls + 1
    /\ lastHandler' = "none"
    /\ UNCHANGED <<transcript, indicatorActive, sendDisabled, fixDisabled,
                   cacheVars, pureVars>>

Settled(e, r) ==
    [exch EXCEPT ![e].stage = "done",
                 ![e].outcome = IF r.threw THEN "error" ELSE "success",
                 ![e].res = r.text]

\* handleSend after the await, with setLoadingState(false) at the end of
\* the try block instead of in a finally
SendResolvedNoFinally(e, o) ==
    LET r == fetchCodeAssistantResponse(o)
    IN  /\ e \in Exchanges
        /\ exch[e].kind = "send"
        /\ exch[e].stage = "fetch"
        /\ transcript' = replaceLastBubble(transcript,
               IF r.threw THEN ErrorBubble(r.text) ELSE Bubble("raw", r.text, <<>>))
        /\ IF r.threw
           THEN UNCHANGED <<indicatorActive, sendDisabled, fixDisabled>>
           ELSE setLoadingState(FALSE)
        /\ exch' = Settled(e, r)
        /\ lastHandler' = "none"
        /\ UNCHANGED <<netCalls, cacheVars, pureVars>>

\* handleSend after the await, with a catch block that sends the request
\* again instead of showing the error
SendResolvedRetry(e, o) ==
    LET r == fetchCodeAssistantResponse(o)
    IN  /\ e \in Exchanges
        /\ exch[e].kind = "send"
        /\ exch[e].stage = "fetch"
        /\ IF r.threw
           THEN /\ netCalls' = netCalls + 1
                /\ UNCHANGED <<chatVars, lastHandler>>
           ELSE /\ transcript' = replaceLastBubble(transcript,
                                     Bubble("raw", r.text, <<>>))
                /\ setLoadingState(FALSE)
                /\ exch' = Settled(e, r)
                /\ lastHandler' = "none"
                /\ UNCHANGED netCalls
        /\ UNCHANGED <<cacheVars, pureVars>>

\* handleSend after the await: try / catch / finally
SendResolved(e, o) ==
    LET r == fetchCodeAssistantResponse(o)
    IN  /\ e \in Exchanges
        /\ exch[e].kind = "send"
        /\ exch[e].stage = "fetch"
        /\ transcript' = replaceLastBubble(transcript,
               IF r.threw THEN ErrorBubble(r.text) ELSE Bubble("raw", r.text, <<>>))
        /\ setLoadingState(FALSE)
        /\ exch' = Settled(e, r)
        /\ lastHandler' = "none"
        /\ UNCHANGED <<netCalls, cacheVars, pureVars>>

\* handleSuggestFix after the await: try / catch / finally
FixResolved(e, o) ==
    LET r == fetchCodeAssistantResponse(o)
    IN  /\ e \in Exchanges
        /\ exch[e].kind = "fix"
        /\ exch[e].stage = "fetch"
        /\ transcript' = addChatMessage(transcript,
               IF r.threw THEN Bubble("fix-failed", r.text, <<>>)
               ELSE Bubble("fix", exch[e].q, r.text),
               FALSE)
        /\ setLoadingState(FALSE)
        /\ exch' = Settled(e, r)
        /\ lastHandler' = "none"
        /\ UNCHANGED <<netCalls, cacheVars, pureVars>>

\* askAIButton.onclick after the await: try / catch / finally
AskResolved(e, o) ==
    LET r == fetchCodeAssistantResponse(o)
    IN  /\ e \in Exchanges
        /\ exch[e].kind = "ask"
        /\ exch[e].stage = "fetch"
        /\ transcript' = replaceLastBubble(transcript,
               IF r.threw THEN ErrorBubble(r.text) ELSE Bubble("raw", r.text, <<>>))
        /\ exch' = Settled(e, r)
        /\ lastHandler' = "none"
        /\ UNCHANGED <<indicatorActive, sendDisabled, fixDisabled,
                       netCalls, cacheVars, pureVars>>

Next ==
    \/ \E val \in PanelInputs : SendClick(val)
    \/ \E which \in {13, 97}, shiftKey \in BOOLEAN, val \in PanelInputs :
          KeyPress(which, shiftKey, val)
    \/ \E errorText \in CompilationErrors : FixClick(errorText)
    \/ \E selectedText \in Selections, val \in WidgetInputs :
          AskClick(selectedText, val)
    \/ \E e \in 1..MaxExchanges : LanguageResolved(e)
    \/ \E e \in 1..MaxExchanges, o \in RemoteOutcomes : SendResolved(e, o)
    \/ \E e \in 1..MaxExchanges, o \in RemoteOutcomes : FixResolved(e, o)
    \/ \E e \in 1..MaxExchanges, o \in RemoteOutcomes : AskResolved(e, o)

Spec == Init /\ [][Next]_vars

\* every remote call eventually completes or fails
FairSpec ==
    /\ Spec
    /\ \A e \in 1..MaxExchanges :
          /\ WF_vars(LanguageResolved(e))
          /\ WF_vars(\E o \in RemoteOutcomes : SendResolved(e, o))
          /\ WF_vars(\E o \in RemoteOutcomes : FixResolved(e, o))
          /\ WF_vars(\E o \in RemoteOutcomes : AskResolved(e, o))

----------------------------------------------------------------------------
(* The auto-completion provider and its cache.                             *)

MAX_CONTEXT_LENGTH == 2000

\* textUntilPosition.slice(0, MAX_CONTEXT_LENGTH): the head instead of the tail
truncatedContextFromStart(textUntilPosition) ==
    IF Len(textUntilPosition) > MAX_CONTEXT_LENGTH
    THEN SubSeq(textUntilPosition, 1, MAX_CONTEXT_LENGTH)
    ELSE textUntilPosition

\* textUntilPosition.slice(-MAX_CONTEXT_LENGTH)
truncatedContext(textUntilPosition) ==
    IF Len(textUntilPosition) > MAX_CONTEXT_LENGTH
    THEN SubSeq(textUntilPosition,
                Len(textUntilPosition) - MAX_CONTEXT_LENGTH + 1,
                Len(textUntilPosition))
    ELSE textUntilPosition

\* a full context window of source text
Window == [i \in 1..MAX_CONTEXT_LENGTH |-> IF i % 2 = 0 THEN "a" ELSE "b"]

\* names that every plain object inherits from Object.prototype
InheritedKeys == { <<"c", "o", "n", "s", "t", "r", "u", "c", "t", "o", "r">> }

Range(line, startColumn, endColumn) ==
    [startLineNumber |-> line, endLineNumber |-> line,
     startColumn |-> startColumn, endColumn |-> endColumn]

\* what one invocation of the provider can read from its collaborators: the
\* current language, the text before the cursor, and the word range there
CompletionInputs ==
    { [language |-> "C",      text |-> <<"a", "b">>,         range |-> Range(1, 1, 3)],
      [language |-> "C",      text |-> Window,               range |-> Range(9, 1, 3)],
      [language |-> "Python", text |-> <<"x">> \o Window,    range |-> Range(9, 2, 4)],
      [language |-> "C",      text |-> Window \o <<"x">>,    range |-> Range(9, 2, 4)],
      [language |-> "C",      text |-> CHOOSE k \in InheritedKeys : TRUE,
                                                             range |-> Range(1, 1, 12)] }

\* what one POST to AI_ENDPOINT can come to for a completion prompt
CompletionOutcomes ==
    { [type |-> "network", ok |-> FALSE, json |-> FALSE, content |-> <<>>],
      [type |-> "http",    ok |-> TRUE,  json |-> TRUE,
       content |-> <<"[", "\"", "a", "\"", ",", "\"", "b", "\"", "]">>],
      [type |-> "http",    ok |-> TRUE,  json |-> TRUE,
       content |-> <<"-", " ", "b">>],
      [type |-> "http",    ok |-> TRUE,  json |-> TRUE,
       content |-> <<"[", "]">>] }

\* fetchAutoCompletionSuggestions: an error of the request gives []
fetchAutoCompletionSuggestions(o) ==
    LET r == fetchChatCompletion(o)
        p == parseCompletionResponse(r.text)
    IN  IF r.threw \/ p.threw THEN <<>> ELSE p.value

\* suggestions.map(suggestion => ({label, kind, insertText, documentation, range}))
CompletionItems(suggestions, range) ==
    [i \in 1..Len(suggestions) |->
        [label |-> suggestions[i], kind |-> "Text", insertText |-> suggestions[i],
         documentation |-> "AI Suggestion", range |-> range]]

\* cached.map(item => ({...item, range: range}))
WithRange(items, range) ==
    [i \in 1..Len(items) |-> [items[i] EXCEPT !.range = range]]

SuggestionTexts(items) == [i \in 1..Len(items) |-> items[i].insertText]

\* the lookup keyed by the whole text before the cursor
lookupByFullText(cache, textUntilPosition, range) ==
    LET key == textUntilPosition
    IN  IF key \in DOMAIN cache
        THEN [status |-> "hit", suggestions |-> WithRange(cache[key], range)]
        ELSE IF key \in InheritedKeys
        THEN [status |-> "throw", suggestions |-> <<>>]
        ELSE [status |-> "miss", suggestions |-> <<>>]

\* the lookup with the test "completionCache[truncatedContext]?.length": a
\* stored empty list counts as nothing stored
lookupNonEmpty(cache, textUntilPosition, range) ==
    LET key == truncatedContext(textUntilPosition)
    IN  IF key \in DOMAIN cache /\ cache[key] # <<>>
        THEN [status |-> "hit", suggestions |-> WithRange(cache[key], range)]
        ELSE IF key \in InheritedKeys /\ key \notin DOMAIN cache
        THEN [status |-> "throw", suggestions |-> <<>>]
        ELSE [status |-> "miss", suggestions |-> <<>>]

\* completionCache[truncatedContext] and the test of it: an own property is a
\* stored array (truthy, also when empty); an inherited one is truthy and no
\* array, so that .map(...) throws a TypeError; anything else is undefined
lookup(cache, textUntilPosition, range) ==
    LET key == truncatedContext(textUntilPosition)
    IN  IF key \in DOMAIN cache
        THEN [status |-> "hit", suggestions |-> WithRange(cache[key], range)]
        ELSE IF key \in InheritedKeys
        THEN [status |-> "throw", suggestions |-> <<>>]
        ELSE [status |-> "miss", suggestions |-> <<>>]

CompletionRequest ==
    [stage |-> "language",   \* "language", "fetch" (the awaits), "done", "threw"
     language |-> "",
     text |-> NoText,        \* textUntilPosition
     range |-> Range(0, 0, 0),
     hit |-> FALSE,          \* answered from the cache
     suggestions |-> <<>>]   \* the suggestions of the returned object

Requests == 1..Len(creq)

\* provideCompletionItems, up to await getCurrentLanguage()
provideCompletionItems ==
    /\ Len(creq) < MaxRequests
    /\ creq' = Append(creq, CompletionRequest)
    /\ UNCHANGED <<completionCache, storeLog, netCalls, chatVars, lastHandler, pureVars>>

\* provideCompletionItems from the language to the return of the cached
\* suggestions, the TypeError, or await fetch(...)
CompletionLookup(r, in) ==
    LET found == lookup(completionCache, in.text, in.range)
        read == [creq[r] EXCEPT !.language = in.language, !.text = in.text,
                                !.range = in.range]
    IN  /\ r \in Requests
        /\ creq[r].stage = "language"
        /\ creq' = [creq EXCEPT ![r] =
               IF found.status = "hit"
               THEN [read EXCEPT !.stage = "done", !.hit = TRUE,
                                 !.suggestions = found.suggestions]
               ELSE IF found.status = "throw"
               THEN [read EXCEPT !.stage = "threw"]
               ELSE [read EXCEPT !.stage = "fetch"]]
        /\ netCalls' = IF found.status = "miss" THEN netCalls + 1 ELSE netCalls
        /\ UNCHANGED <<completionCache, storeLog, chatVars, lastHandler, pureVars>>

\* provideCompletionItems after await fetchAutoCompletionSuggestions(...)
CompletionFetched(r, o) ==
    LET suggestions == fetchAutoCompletionSuggestions(o)
        items == CompletionItems(suggestions, creq[r].range)
        key == truncatedContext(creq[r].text)
    IN  /\ r \in Requests
        /\ creq[r].stage = "fetch"
        /\ completionCache' = (key :> items) @@ completionCache
        /\ storeLog' = (key :> Append(IF key \in DOMAIN storeLog
                                      THEN storeLog[key] ELSE <<>>,
                                      suggestions)) @@ storeLog
        /\ creq' = [creq EXCEPT ![r].stage = "done", ![r].suggestions = items]
        /\ UNCHANGED <<netCalls, chatVars, lastHandler, pureVars>>

CacheNext ==
    \/ provideCompletionItems
    \/ \E r \in 1..MaxRequests, in \in CompletionInputs : CompletionLookup(r, in)
    \/ \E r \in 1..MaxRequests, o \in CompletionOutcomes : CompletionFetched(r, o)

CacheSpec == Init /\ [][CacheNext]_vars

----------------------------------------------------------------------------
(* The panel, the widget and the completion provider running together,     *)
(* each remote request failing or succeeding.                              *)

MaxAttempts == 3

\* a request that fails, and one that is answered
AttemptOutcomes ==
    { o \in RemoteOutcomes : o.type = "network" \/ o.content # <<>> }

AttemptCompletionOutcomes ==
    { o \in CompletionOutcomes :
         o.type = "network" \/ parseCompletionResponse(o.content).value # <<>> }

\* texts before the cursor shorter than the window
AttemptCompletionInputs ==
    { in \in CompletionInputs : Len(in.text) < MAX_CONTEXT_LENGTH }

\* the user's actions and the continuations of the pending calls
AttemptStep ==
    \/ \E val \in PanelInputs : SendClick(val)
    \/ \E which \in {13, 97}, shiftKey \in BOOLEAN, val \in PanelInputs :
          KeyPress(which, shiftKey, val)
    \/ \E errorText \in CompilationErrors : FixClick(errorText)
    \/ \E selectedText \in Selections, val \in WidgetInputs :
          AskClick(selectedText, val)
    \/ \E e \in 1..MaxExchanges : LanguageResolved(e)
    \/ \E e \in 1..MaxExchanges, o \in AttemptOutcomes : SendResolved(e, o)
    \/ \E e \in 1..MaxExchanges, o \in AttemptOutcomes : FixResolved(e, o)
    \/ \E e \in 1..MaxExchanges, o \in AttemptOutcomes : AskResolved(e, o)
    \/ provideCompletionItems
    \/ \E r \in 1..MaxRequests, in \in AttemptCompletionInputs :
          CompletionLookup(r, in)
    \/ \E r \in 1..MaxRequests, o \in AttemptCompletionOutcomes :
          CompletionFetched(r, o)

\* of exchanges and completion requests together, MaxAttempts are started
AttemptNext ==
    /\ AttemptStep
    /\ Len(exch') + Len(creq') <= MaxAttempts

AttemptSpec == Init /\ [][AttemptNext]_vars

----------------------------------------------------------------------------
(* parseCompletionResponse applied to the texts a model can answer with.   *)

MaxLen == 3

MaxElements == 6

MaxLines == 6

\* every text over Alphabet of at most MaxLen characters
ShortTexts == UNION { [1..n -> Alphabet] : n \in 0..MaxLen }

\* the strings of a suggestion array: plain code, and code with a bracket
Elements == { <<"a">>, <<"b", "]">> }

StringArrays == UNION { [1..n -> Elements] : n \in 0..MaxElements }

\* JSON.stringify of an array of strings (none needs an escape)
RECURSIVE ArrayBody(_)
ArrayBody(arr) ==
    IF arr = <<>> THEN <<>>
    ELSE <<"\"">> \o Head(arr) \o <<"\"">>
         \o (IF Len(arr) > 1 THEN <<",">> ELSE <<>>) \o ArrayBody(Tail(arr))

ArrayText(arr) == <<"[">> \o ArrayBody(arr) \o <<"]">>

\* prose a model puts before and after the array
ProseBefore == { <<>>, <<"a", " ">>, <<"[", "1", "]", " ">> }

ProseAfter == { <<>>, <<" ", "b">> }

\* an answer with a JSON array of strings in it
EmbeddedTexts ==
    { [text |-> pre \o ArrayText(arr) \o post,
       embedded |-> [has |-> TRUE, strings |-> arr,
                     bare |-> \A i \in 1..Len(pre) : pre[i] \notin {"[", "]"}]] :
         pre \in ProseBefore, arr \in StringArrays, post \in ProseAfter }

\* the lines of an answer without an array: bullets, and an empty line
Lines == { <<"-", " ", "a">>, <<"*", "b", " ">>, <<>> }

RECURSIVE JoinLines(_)
JoinLines(ls) ==
    IF ls = <<>> THEN <<>>
    ELSE Head(ls) \o (IF Len(ls) > 1 THEN <<"\n">> ELSE <<>>) \o JoinLines(Tail(ls))

BulletTexts ==
    { JoinLines(ls) : ls \in UNION { [1..n -> Lines] : n \in 0..MaxLines } }

\* the raw texts parseCompletionResponse is applied to
ParserInputs ==
    EmbeddedTexts
      \cup { [text |-> t, embedded |-> NotEmbedded] : t \in ShortTexts \cup BulletTexts }

ParserInit ==
    /\ Loaded
    /\ \E in \in ParserInputs :
          /\ rawResponse = in.text
          /\ embedded = in.embedded
    /\ parsed = NotCalled
    /\ cursorText = <<>>
    /\ context = NotCalled

\* return parseCompletionResponse(rawResponse)
ParseResponse ==
    LET p == parseCompletionResponse(rawResponse)
    IN  /\ parsed.stage = "pending"
        /\ parsed' = [stage |-> IF p.threw THEN "threw" ELSE "returned",
                      threw |-> p.threw, value |-> p.value]
        /\ UNCHANGED <<chatVars, netCalls, lastHandler, cacheVars,
                       rawResponse, embedded, windowVars>>

ParserNext == ParseResponse

ParserSpec == ParserInit /\ [][ParserNext]_vars

----------------------------------------------------------------------------
(* The context window applied to texts around MAX_CONTEXT_LENGTH.          *)

WindowMargin == 12

SourceChars == <<"a", "b", "c", "d", "e">>

\* a source text of n characters, its i-th one following a pattern of step k
SourceText(n, k) == [i \in 1..n |-> SourceChars[((i * k) % 5) + 1]]

\* the texts before the cursor: short ones, and ones about as long as the window
WindowInputs ==
    { SourceText(n, k) :
        n \in (0..WindowMargin)
                \cup ((MAX_CONTEXT_LENGTH - WindowMargin)..(MAX_CONTEXT_LENGTH + WindowMargin)),
        k \in {1, 2} }

WindowInit ==
    /\ Loaded
    /\ rawResponse = <<>>
    /\ embedded = NotEmbedded
    /\ parsed = NotCalled
    /\ cursorText \in WindowInputs
    /\ context = NotCalled

\* const truncatedContext = textUntilPosition.slice(-MAX_CONTEXT_LENGTH)
Truncate ==
    /\ context.stage = "pending"
    /\ context' = [stage |-> "returned", threw |-> FALSE,
                   value |-> truncatedContext(cursorText)]
    /\ UNCHANGED <<chatVars, netCalls, lastHandler, cacheVars,
                   parserVars, cursorText>>

WindowNext == Truncate

WindowSpec == WindowInit /\ [][WindowNext]_vars

----------------------------------------------------------------------------
(* Properties of the chat session controller.                              *)

\* exchange e resolves in this step: its try/catch/finally runs
ResolvesNow(e) ==
    /\ e \in Exchanges
    /\ Awaiting(e)
    /\ exch'[e].stage = "done"

PanelAwaiting ==
    { e \in Exchanges : exch[e].kind \in {"send", "fix"} /\ Awaiting(e) }

\* the bubbles a resolution shows for an exchange that resolved with text res
ShowsResult(m, res) ==
    \/ m.bubble.tpl = "raw" /\ m.bubble.a = res
    \/ m.bubble.tpl = "fix" /\ m.bubble.b = res

ShowsError(m, res) ==
    /\ m.bubble.tpl \in {"error-message", "fix-failed"}
    /\ m.bubble.a = res

\* C1: at most one exchange started from the assistant panel (Send click,
\* Enter key, Suggest Fix click) is awaiting a response at any time.
C1_OnePanelExchangeAtATime == Cardinality(PanelAwaiting) <= 1

\* C2: a resolving exchange finds the provisional message it appended itself
\* as the last transcript element, and modifies no other element.
C2_ResolutionMutatesOwnProvisional ==
    [][\A e \in 1..MaxExchanges :
          ResolvesNow(e) =>
             /\ exch[e].ph = Len(transcript)
             /\ \A i \in 1..Len(transcript) :
                   i # exch[e].ph => transcript'[i] = transcript[i]]_vars

\* the messages the started exchanges appended when they started
RECURSIVE AppendedAtStart(_)
AppendedAtStart(n) ==
    IF n = 0 THEN 0
    ELSE AppendedAtStart(n - 1) + (IF exch[n].kind = "fix" THEN 1 ELSE 2)

\* C3: the provisional message of every resolved exchange has been
\* overwritten (no resolved exchange's element still shows placeholder text)
\* and resolutions have appended nothing to the transcript.
C3_ProvisionalOverwrittenInPlace ==
    /\ \A e \in Exchanges :
          ~Awaiting(e) => ~IsPlaceholder(transcript[exch[e].ph])
    /\ Len(transcript) = AppendedAtStart(Len(exch))

\* C4: the busy indicator is set whenever some exchange is awaiting a
\* response, whichever path started it.
C4_BusyWhileAwaiting ==
    (\E e \in Exchanges : Awaiting(e)) => indicatorActive

\* C5: the resolution of a send or suggest-fix exchange, successful or not,
\* clears the busy indicator, and (every remote call completing or failing)
\* a set busy indicator is eventually cleared.
C5_BusyEventuallyCleared ==
    /\ [][\A e \in 1..MaxExchanges :
             (ResolvesNow(e) /\ exch[e].kind \in {"send", "fix"})
                => (~indicatorActive' /\ ~sendDisabled' /\ ~fixDisabled')]_vars
    /\ (indicatorActive ~> ~indicatorActive)

\* C5 witness: a failed send and a successful suggest-fix have both
\* resolved and the busy indicator is cleared.
C5_Witness ==
    /\ ~indicatorActive
    /\ \E e \in Exchanges :
          exch[e].kind = "send" /\ exch[e].outcome = "error"
    /\ \E e \in Exchanges :
          exch[e].kind = "fix" /\ exch[e].outcome = "success"

\* C6: when a send or suggest-fix exchange resolves successfully, the
\* second-to-last message is the user's question of that exchange, the last
\* message shows its rendered result, and the busy indicator is false.
C6_QuestionThenResult ==
    [][\A e \in 1..MaxExchanges :
          (/\ ResolvesNow(e)
           /\ exch[e].kind \in {"send", "fix"}
           /\ exch'[e].outcome = "success")
             => LET n == Len(transcript')
                IN  /\ n >= 2
                    /\ transcript'[n - 1].isUser
                    /\ transcript'[n - 1].bubble.a = exch[e].q
                    /\ ShowsResult(transcript'[n], exch'[e].res)
                    /\ ~indicatorActive']_vars

\* C7: when an exchange (send, suggest-fix or widget ask) resolves with an
\* error, the last message shows the error's text and the busy indicator is
\* false.
C7_ErrorShownAndBusyCleared ==
    [][\A e \in 1..MaxExchanges :
          (ResolvesNow(e) /\ exch'[e].outcome = "error")
             => /\ transcript' # <<>>
                /\ ShowsError(transcript'[Len(transcript')], exch'[e].res)
                /\ ~indicatorActive']_vars

\* C8: a suggest-fix click without a compiler error, and a widget ask with an
\* empty selection or an empty (blank) question, change neither the
\* transcript, the busy indicator and the buttons, the exchanges, the cache,
\* nor the number of network calls.
C8_GuardedEventsChangeNothing ==
    [][(\/ FixClick(<<>>)
        \/ \E selectedText \in Selections, val \in WidgetInputs :
              /\ selectedText = <<>> \/ Trim(val) = <<>>
              /\ AskClick(selectedText, val))
          => UNCHANGED <<transcript, indicatorActive, sendDisabled, fixDisabled,
                         exch, netCalls, completionCache>>]_vars

\* C8 witness: after a send exchange has resolved and filled the transcript,
\* the last event went to handleSuggestFix and started no exchange.
C8_Witness ==
    /\ lastHandler = "handleSuggestFix"
    /\ Len(exch) = 1
    /\ exch[1].kind = "send"
    /\ exch[1].stage = "done"
    /\ Len(transcript) = 2
    /\ ~indicatorActive

----------------------------------------------------------------------------
(* Properties of the completion cache.                                     *)

KeyOf(r) == truncatedContext(creq[r].text)

Looked(r) == r \in Requests /\ creq[r].stage # "language"

\* C9: requests with one key produce one stored result (what is stored under
\* a key never changes after the first store), every request answered from
\* the cache returns the first suggestions stored for its key, and only the
\* requests that missed have invoked the remote client.
C9_CacheIdempotent ==
    /\ \A k \in DOMAIN storeLog :
          \A i \in 1..Len(storeLog[k]) : storeLog[k][i] = storeLog[k][1]
    /\ \A r \in Requests :
          creq[r].hit =>
             /\ KeyOf(r) \in DOMAIN storeLog
             /\ SuggestionTexts(creq[r].suggestions) = storeLog[KeyOf(r)][1]
    /\ netCalls =
          Cardinality({ r \in Requests :
                           creq[r].stage \in {"fetch", "done"} /\ ~creq[r].hit })

\* C10: in every reachable cache, two requests with equal truncated-context
\* keys get the same answer from the lookup (hit, miss or TypeError, and on a
\* hit the same suggestion texts), whatever the rest of their texts, their
\* languages and their ranges; a lookup is a hit exactly when a store under
\* its key has occurred, and it returns the texts stored last under that key.
C10_AnswerDependsOnKeyOnly ==
    /\ \A in1, in2 \in CompletionInputs :
          truncatedContext(in1.text) = truncatedContext(in2.text) =>
             LET a == lookup(completionCache, in1.text, in1.range)
                 b == lookup(completionCache, in2.text, in2.range)
             IN  /\ a.status = b.status
                 /\ SuggestionTexts(a.suggestions) = SuggestionTexts(b.suggestions)
    /\ \A in \in CompletionInputs :
          LET k == truncatedContext(in.text)
              a == lookup(completionCache, in.text, in.range)
          IN  /\ a.status = "hit" <=> k \in DOMAIN storeLog
              /\ a.status = "hit" =>
                    /\ SuggestionTexts(a.suggestions) = storeLog[k][Len(storeLog[k])]
                    /\ \A i \in 1..Len(a.suggestions) :
                          a.suggestions[i].range = in.range
    /\ \A r \in Requests :
          Looked(r) => (creq[r].hit =>
             /\ KeyOf(r) \in DOMAIN storeLog
             /\ \E i \in 1..Len(storeLog[KeyOf(r)]) :
                   SuggestionTexts(creq[r].suggestions) = storeLog[KeyOf(r)][i])

\* C10 witness: a request was answered from the cache with the suggestions
\* another request had stored under the same key, the two differing in the
\* text outside the window, in the language and in the range.
C10_Witness ==
    \E r1, r2 \in Requests :
       /\ creq[r1].stage = "done" /\ ~creq[r1].hit
       /\ creq[r2].stage = "done" /\ creq[r2].hit
       /\ KeyOf(r1) = KeyOf(r2)
       /\ creq[r1].text # creq[r2].text
       /\ creq[r1].language # creq[r2].language
       /\ creq[r1].range # creq[r2].range
       /\ creq[r2].suggestions # <<>>
       /\ SuggestionTexts(creq[r2].suggestions) = SuggestionTexts(creq[r1].suggestions)

\* C11: the cache lookup never throws and never reports a hit for a key that
\* was never stored: no invocation of the provider ends in an exception at
\* the lookup, and every request answered from the cache has a key under
\* which a store has occurred.
C11_LookupNeverThrows ==
    /\ \A r \in Requests : creq[r].stage # "threw"
    /\ \A r \in Requests : creq[r].hit => KeyOf(r) \in DOMAIN storeLog

----------------------------------------------------------------------------
(* Properties of the response parser.                                      *)

Returned == parsed.stage = "returned"

\* the text has no "[" with a "]" somewhere after it
NoArrayShape(t) ==
    ~\E i, j \in 1..Len(t) : i < j /\ t[i] = "[" /\ t[j] = "]"

\* C12 as stated: whatever the raw text, on the JSON-array path too, parse
\* returns at most 5 strings.
C12_AtMostFiveAlways ==
    Returned => Len(parsed.value) <= 5

\* C12 amended: for a raw text without an array-shaped substring parse
\* returns at most 5 non-empty strings; for an answer that is prose without
\* brackets around a JSON array of plain strings it returns as many strings
\* as the array has, more than 5 included.
C12_AtMostFiveOnFallback ==
    Returned =>
       /\ NoArrayShape(rawResponse) =>
             /\ Len(parsed.value) <= 5
             /\ \A i \in 1..Len(parsed.value) : parsed.value[i] # <<>>
       /\ (/\ embedded.has
           /\ embedded.bare
           /\ \A i \in 1..Len(embedded.strings) : embedded.strings[i] = <<"a">>)
             => Len(parsed.value) = Len(embedded.strings)

\* C12 witness: a text of six bullet lines and no array was parsed into five
\* strings.
C12_Witness ==
    /\ Returned
    /\ NoArrayShape(rawResponse)
    /\ Len(CleanLines(SplitLines(rawResponse))) = 6
    /\ Len(parsed.value) = 5

\* C13: for a raw text that has a valid JSON array of strings embedded in
\* prose (strings and prose with bracket characters included), parse returns
\* exactly the strings of the array, in order.
C13_RoundTrip ==
    (Returned /\ embedded.has) => parsed.value = embedded.strings

\* the array-shaped substring of t is found and JSON.parse rejects it
JsonParseFails(t) ==
    /\ jsonMatch(t) # <<>>
    /\ ~JsonArrayStrings(jsonMatch(t)).ok

\* C14: when no array-shaped substring is found, and also when one is found
\* and parsing it as JSON fails, parse returns the first 5 non-empty cleaned
\* lines of the text, in order.
C14_FallbackToLines ==
    (Returned /\ (jsonMatch(rawResponse) = <<>> \/ JsonParseFails(rawResponse)))
       => parsed.value = FirstFive(CleanLines(SplitLines(rawResponse)))

\* C15: parse never lets an error out: every call returns a sequence of
\* strings, and a text whose array-shaped substring JSON.parse rejects (the
\* parsing exception) gives the empty sequence.
C15_NeverThrows ==
    /\ parsed.stage # "threw"
    /\ Returned =>
          /\ parsed.value \in Seq(Seq(Alphabet))
          /\ JsonParseFails(rawResponse) => parsed.value = <<>>

\* C15 witness: a text with lines of candidates in it, whose array-shaped
\* substring is no JSON, was parsed into the empty sequence.
C15_Witness ==
    /\ Returned
    /\ JsonParseFails(rawResponse)
    /\ CleanLines(SplitLines(rawResponse)) # <<>>
    /\ parsed.value = <<>>

----------------------------------------------------------------------------
(* Properties of the completion client as the exchanges see it.            *)

\* exchange e resolves in this step on the remote outcome o
ResolvesOn(e, o) == SendResolved(e, o) \/ FixResolved(e, o) \/ AskResolved(e, o)

\* the response arrived with a success status and a body that is no JSON
Malformed(o) == o.type = "http" /\ o.ok /\ ~o.json

\* C16: an exchange whose request met a network failure or a non-success
\* status resolves as an error with the error's text shown in the
\* transcript; one whose success response has no message content resolves
\* as a success showing the literal fallback string; one whose response is
\* malformed does not resolve as an error.
C16_OutcomeClassification ==
    [][\A e \in 1..MaxExchanges, o \in RemoteOutcomes :
          ResolvesOn(e, o) =>
             /\ (o.type = "network" \/ ~o.ok) =>
                   /\ exch'[e].outcome = "error"
                   /\ exch'[e].res # <<>>
                   /\ ShowsError(transcript'[Len(transcript')], exch'[e].res)
             /\ (o.ok /\ o.json /\ o.content = <<>>) =>
                   /\ exch'[e].outcome = "success"
                   /\ ShowsResult(transcript'[Len(transcript')],
                                  markedParse(NoResponseFromAI))
             /\ Malformed(o) => exch'[e].outcome # "error"]_vars

----------------------------------------------------------------------------
(* Properties of the context window.                                       *)

\* C17: a text before the cursor of at most MAX_CONTEXT_LENGTH characters is
\* its own truncated context; of a longer text the truncated context is
\* exactly the last MAX_CONTEXT_LENGTH characters; it is always a suffix of
\* the text.
C17_TrailingWindow ==
    context.stage = "returned" =>
       LET n == Len(cursorText)
           m == Len(context.value)
       IN  /\ n <= MAX_CONTEXT_LENGTH => context.value = cursorText
           /\ n > MAX_CONTEXT_LENGTH => m = MAX_CONTEXT_LENGTH
           /\ m <= n
           /\ \A i \in 1..m : context.value[i] = cursorText[n - m + i]

\* C17 witness: a text one character longer than the window was cut to the
\* window, and the result differs from the text.
C17_Witness ==
    /\ context.stage = "returned"
    /\ Len(cursorText) = MAX_CONTEXT_LENGTH + 1
    /\ Len(context.value) = MAX_CONTEXT_LENGTH
    /\ context.value[1] = cursorText[2]
    /\ context.value[1] # cursorText[1]

----------------------------------------------------------------------------
(* Properties of the transcript.                                           *)

\* C18: in every step the transcript does not get shorter, every element
\* stays at its position, and the only element whose content changes is the
\* one that is last before the step (its author and time stamp stay).
C18_AppendOnlyButLast ==
    [][/\ Len(transcript') >= Len(transcript)
       /\ \A i \in 1..Len(transcript) :
             /\ i < Len(transcript) => transcript'[i] = transcript[i]
             /\ transcript'[i].isUser = transcript[i].isUser
             /\ transcript'[i].timestamp = transcript[i].timestamp]_vars

\* C18 witness: two exchanges have resolved, the second one by replacing the
\* content of the last of four messages while the first three stayed.
C18_Witness ==
    /\ Len(exch) = 2
    /\ exch[1].stage = "done" /\ exch[2].stage = "done"
    /\ exch[2].kind = "ask"
    /\ Len(transcript) = 4
    /\ transcript[1].isUser /\ transcript[3].isUser
    /\ ~IsPlaceholder(transcript[2]) /\ ~IsPlaceholder(transcript[4])

----------------------------------------------------------------------------
(* Properties of concurrent and repeated remote requests.                  *)

\* C19: a completion request that looks up a key under which nothing is
\* stored yet, after another request has looked up the same key and has not
\* stored either, issues a remote request of its own; every request whose
\* remote request completes returns the suggestions of that request, and
\* the cache then holds one entry for the key.
C19_NoCoalescing ==
    [][/\ \A r \in 1..MaxRequests, in \in CompletionInputs :
             (/\ CompletionLookup(r, in)
              /\ truncatedContext(in.text) \notin DOMAIN completionCache
              /\ \E r2 \in Requests \ {r} :
                    /\ Looked(r2)
                    /\ creq[r2].stage # "done"
                    /\ KeyOf(r2) = truncatedContext(in.text))
                => /\ creq'[r].stage = "fetch"
                   /\ netCalls' = netCalls + 1
       /\ \A r \in 1..MaxRequests, o \in CompletionOutcomes :
             CompletionFetched(r, o)
                => /\ SuggestionTexts(creq'[r].suggestions)
                         = fetchAutoCompletionSuggestions(o)
                   /\ DOMAIN completionCache' = DOMAIN completionCache \cup {KeyOf(r)}
                   /\ completionCache'[KeyOf(r)] = creq'[r].suggestions]_vars

\* the exchanges and the cache-missing requests that have issued their
\* remote request
Requested ==
    Cardinality({ e \in Exchanges : exch[e].stage \in {"fetch", "done"} })
      + Cardinality({ r \in Requests :
                         creq[r].stage \in {"fetch", "done"} /\ ~creq[r].hit })

\* C20: every exchange that has got to its request, and every completion
\* request that missed the cache, has issued exactly one remote request, and
\* nothing else has (the number of remote requests is the number of those);
\* an exchange or request that has resolved, failed or not, stays resolved
\* and issues no further request.
C20_SingleAttempt ==
    /\ [](netCalls = Requested)
    /\ [][/\ \A e \in 1..MaxExchanges :
                (e \in Exchanges /\ exch[e].stage = "done") => exch'[e] = exch[e]
          /\ \A r \in 1..MaxRequests :
                (r \in Requests /\ creq[r].stage \in {"done", "threw"})
                   => creq'[r] = creq[r]
          /\ \A e \in 1..MaxExchanges :
                ResolvesNow(e) => netCalls' = netCalls]_vars

\* C20 witness: a send exchange and a completion request have both failed,
\* and two remote requests were issued in all.
C20_Witness ==
    /\ Len(exch) = 1 /\ Len(creq) = 1
    /\ exch[1].kind = "send" /\ exch[1].outcome = "error"
    /\ creq[1].stage = "done" /\ ~creq[1].hit /\ creq[1].suggestions = <<>>
    /\ netCalls = 2

\* C21: a completion request that missed the cache stores an entry under its
\* key when its remote call completes, the empty list when the call failed
\* or the parser found no candidate; entries are never removed; a request
\* that looks up a key with an entry, empty or not, returns the stored list
\* and issues no remote call.
C21_FailedCompletionIsCached ==
    [][/\ \A r \in 1..MaxRequests, o \in CompletionOutcomes :
             CompletionFetched(r, o)
                => /\ KeyOf(r) \in DOMAIN completionCache'
                   /\ SuggestionTexts(completionCache'[KeyOf(r)])
                         = fetchAutoCompletionSuggestions(o)
                   /\ (fetchChatCompletion(o).threw
                         => completionCache'[KeyOf(r)] = <<>>)
       /\ \A r \in 1..MaxRequests, in \in CompletionInputs :
             (/\ CompletionLookup(r, in)
              /\ truncatedContext(in.text) \in DOMAIN completionCache)
                => /\ creq'[r].stage = "done"
                   /\ creq'[r].hit
                   /\ SuggestionTexts(creq'[r].suggestions)
                         = SuggestionTexts(completionCache[truncatedContext(in.text)])
                   /\ netCalls' = netCalls
       /\ DOMAIN completionCache \subseteq DOMAIN completionCache']_vars

\* C21 witness: a completion request failed and stored the empty list, and a
\* later request with the same key was answered with the empty list from
\* the cache, one remote call having been made in all.
C21_Witness ==
    /\ Len(creq) = 2
    /\ creq[1].stage = "done" /\ ~creq[1].hit /\ creq[1].suggestions = <<>>
    /\ creq[2].stage = "done" /\ creq[2].hit /\ creq[2].suggestions = <<>>
    /\ KeyOf(1) = KeyOf(2)
    /\ completionCache[KeyOf(1)] = <<>>
    /\ netCalls = 1

====
